---- MODULE Spec2Model ----
(***************************************************************************)
(* Zora social-network subgraph: the chain-event handlers of mapping.ts,   *)
(* the URI helpers of ipfs-handler.ts and the File Data Source handler of  *)
(* ipfs-file-handler.ts, as a state machine over the entity store.         *)
(*                                                                         *)
(* Strings that the code takes apart (URIs, IPFS hashes, gateway URLs) are *)
(* sequences of one-character strings.  A nullable entity field is an      *)
(* option: None when unset, Some(v) when set.  An entity store is a        *)
(* function whose domain is the set of ids that have been saved.           *)
(***************************************************************************)
EXTENDS Integers, Sequences, FiniteSets, TLC

(* ------------------------------ bounds -------------------------------- *)
\* coin addresses a factory can emit CoinCreatedV4 for
MaxCoins == 2
\* fetch completions the graph node delivers, all CIDs together
MaxCompletions == 2
\* handlePostMetadata instances whose steps may interleave
MaxInstances == 2

\* characters of the longest hash handed to the URI helpers
MaxHashLen == 2
\* the largest gateway index, of either sign, handed to buildIPFSURL
MaxGatewayIndex == 7

\* Transfer and Mint events the coin contracts emit
MaxEvents == 2

(* ------------------------- nullable fields ---------------------------- *)
None == <<>>
Some(v) == <<v>>

(* --------------------------- string helpers --------------------------- *)
\* String.prototype.startsWith
StartsWith(s, p) == Len(s) >= Len(p) /\ SubSeq(s, 1, Len(p)) = p

\* String.prototype.indexOf, 1-based; 0 when p does not occur in s
IndexOf(s, p) ==
  LET hits == {i \in 1..(Len(s) - Len(p) + 1) : SubSeq(s, i, i + Len(p) - 1) = p}
  IN  IF hits = {} THEN 0 ELSE CHOOSE i \in hits : \A j \in hits : i <= j

\* String.prototype.includes
Includes(s, p) == IndexOf(s, p) # 0

\* String.prototype.replace with a string pattern: the first occurrence only
Replace(s, search, repl) ==
  LET i == IndexOf(s, search)
  IN  IF i = 0 THEN s
      ELSE SubSeq(s, 1, i - 1) \o repl \o SubSeq(s, i + Len(search), Len(s))

\* String.prototype.split with a non-empty separator
RECURSIVE Split(_, _)
Split(s, sep) ==
  LET i == IndexOf(s, sep)
  IN  IF i = 0 THEN <<s>>
      ELSE <<SubSeq(s, 1, i - 1)>> \o Split(SubSeq(s, i + Len(sep), Len(s)), sep)

IpfsScheme == <<"i","p","f","s",":","/","/">>
HttpsScheme == <<"h","t","t","p","s",":","/","/">>
IpfsSegment == <<"/","i","p","f","s","/">>
Slash == <<"/">>

(* --------------------------- ipfs-handler.ts -------------------------- *)
\* extractIPFSHash that cuts the remainder of an ipfs:// URI at its first "/"
extractIPFSHash_cutAtSlash(uri) ==
  IF StartsWith(uri, IpfsScheme) THEN Split(Replace(uri, IpfsScheme, <<>>), Slash)[1]
  ELSE IF StartsWith(uri, HttpsScheme) /\ Includes(uri, IpfsSegment)
       THEN LET parts == Split(uri, IpfsSegment)
            IN  IF Len(parts) > 1 THEN Split(parts[2], Slash)[1] ELSE <<>>
       ELSE <<>>

\* extractIPFSHash that takes the gateway branch whatever the URI starts with
extractIPFSHash_anyScheme(uri) ==
  IF StartsWith(uri, IpfsScheme) THEN Replace(uri, IpfsScheme, <<>>)
  ELSE IF Includes(uri, IpfsSegment)
       THEN LET parts == Split(uri, IpfsSegment)
            IN  IF Len(parts) > 1 THEN Split(parts[2], Slash)[1] ELSE <<>>
       ELSE <<>>

\* extractIPFSHash that falls back to the last path component of the URI
extractIPFSHash_lastComponent(uri) ==
  IF StartsWith(uri, IpfsScheme) THEN Replace(uri, IpfsScheme, <<>>)
  ELSE IF StartsWith(uri, HttpsScheme) /\ Includes(uri, IpfsSegment)
       THEN LET parts == Split(uri, IpfsSegment)
            IN  IF Len(parts) > 1 THEN Split(parts[2], Slash)[1] ELSE <<>>
       ELSE LET comps == Split(uri, Slash) IN comps[Len(comps)]

\* extractIPFSHash(uri): "" (the empty sequence) is the unresolved result
extractIPFSHash(uri) ==
  IF StartsWith(uri, IpfsScheme) THEN Replace(uri, IpfsScheme, <<>>)
  ELSE IF StartsWith(uri, HttpsScheme) /\ Includes(uri, IpfsSegment)
       THEN LET parts == Split(uri, IpfsSegment)
            IN  IF Len(parts) > 1 THEN Split(parts[2], Slash)[1] ELSE <<>>
       ELSE <<>>

IPFS_GATEWAYS ==
  << <<"h","t","t","p","s",":","/","/","i","p","f","s",".","i","o","/","i","p","f","s","/">>,
     <<"h","t","t","p","s",":","/","/","g","a","t","e","w","a","y",".","p","i","n","a","t","a",".","c","l","o","u","d","/","i","p","f","s","/">>,
     <<"h","t","t","p","s",":","/","/","c","l","o","u","d","f","l","a","r","e","-","i","p","f","s",".","c","o","m","/","i","p","f","s","/">>,
     <<"h","t","t","p","s",":","/","/","d","w","e","b",".","l","i","n","k","/","i","p","f","s","/">> >>

\* the result of an array access outside the array: the runtime traps
IndexOutOfRange == <<"<trap: index out of range>">>

\* buildIPFSURL that wraps an index past the end around the list
buildIPFSURL_modulo(hash, gatewayIndex) ==
  LET idx == IF gatewayIndex >= Len(IPFS_GATEWAYS)
             THEN gatewayIndex % Len(IPFS_GATEWAYS) ELSE gatewayIndex
  IN  IF idx < 0 THEN IndexOutOfRange ELSE IPFS_GATEWAYS[idx + 1] \o hash

\* buildIPFSURL(hash, gatewayIndex), gatewayIndex 0-based as in the code
buildIPFSURL(hash, gatewayIndex) ==
  LET idx == IF gatewayIndex >= Len(IPFS_GATEWAYS) THEN 0 ELSE gatewayIndex
  IN  IF idx < 0 THEN IndexOutOfRange ELSE IPFS_GATEWAYS[idx + 1] \o hash

(* ------------------------------ inputs -------------------------------- *)
Coins == 1..MaxCoins
Callers == {"u1", "u2"}

\* the zero address, the sender of a Transfer that mints
ZeroAddress == "0x0000000000000000000000000000000000000000"
Addresses == Callers \cup {ZeroAddress}

\* the from, to and value of the Transfer and Mint events delivered
TransferSenders == {ZeroAddress, "u1"}
TransferReceivers == {"u1", "u2"}
Amounts == {2}

\* the hash of the transaction the Transfer and Mint events belong to
TxHash == "0xt1"

\* content-reference strings carried by CoinCreatedV4 events:
\* ipfs://a, ipfs://b, https://g/ipfs/a/x, https://e/foo
URIs ==
  { <<"i","p","f","s",":","/","/","a">>,
    <<"i","p","f","s",":","/","/","b">>,
    <<"h","t","t","p","s",":","/","/","g","/","i","p","f","s","/","a","/","x">>,
    <<"h","t","t","p","s",":","/","/","e","/","f","o","o">> }

\* the identifiers those references resolve to
CIDs == {extractIPFSHash(u) : u \in URIs} \ {<<>>}

\* the values dataSource.stringParam() can hand to handlePostMetadata: the
\* identifiers above and the empty string
Identifiers == CIDs \cup {<<>>}

\* content URIs at the edges of extractIPFSHash: the scheme alone, an empty
\* component after /ipfs/, nothing after /ipfs/, a gateway URI over http, and
\* two URIs that resolve
ProducerURIs ==
  { <<"i","p","f","s",":","/","/">>,
    <<"h","t","t","p","s",":","/","/","g","/","i","p","f","s","/","/","x">>,
    <<"h","t","t","p","s",":","/","/","g","/","i","p","f","s","/">>,
    <<"h","t","t","p",":","/","/","g","/","i","p","f","s","/","a">>,
    <<"i","p","f","s",":","/","/","a">>,
    <<"h","t","t","p","s",":","/","/","g","/","i","p","f","s","/","a","/","x">> }

\* the content URIs with the ipfs:// scheme: two that resolve to two CIDs
FrameURIs == {u \in URIs : StartsWith(u, IpfsScheme)}

\* hashes handed to the URI helpers: every string over a, b up to MaxHashLen
Hashes == UNION {[1..n -> {"a", "b"}] : n \in 0..MaxHashLen}

\* URIs handed to extractIPFSHash, put together from a head (ipfs://,
\* https://h, http://h, or nothing), a middle (nothing, /ipfs/ or /x/), a hash
\* and a tail (nothing, /y, /ipfs/c or ipfs://)
UriHeads == {<<"i","p","f","s",":","/","/">>, <<"h","t","t","p","s",":","/","/","h">>, <<"h","t","t","p",":","/","/","h">>, <<>>}
UriMiddles == {<<>>, <<"/","i","p","f","s","/">>, <<"/","x","/">>}
UriTails == {<<>>, <<"/","y">>, <<"/","i","p","f","s","/","c">>, <<"i","p","f","s",":","/","/">>}
HelperURIs ==
  {hd \o mid \o h \o tl : hd \in UriHeads, mid \in UriMiddles, h \in Hashes, tl \in UriTails}

\* gateway indexes handed to buildIPFSURL, an i32
GatewayIndexes == (0 - MaxGatewayIndex)..MaxGatewayIndex

(* ----------------------- JSON values (graph-ts) ----------------------- *)
\* a JSONValue: its kind, its text (toString) and, for an object, its entries
JString(s) == [kind |-> "STRING", str |-> s, entries |-> <<>>]
JNumber(s) == [kind |-> "NUMBER", str |-> s, entries |-> <<>>]
JArray(s) == [kind |-> "ARRAY", str |-> s, entries |-> <<>>]
JNull == [kind |-> "NULL", str |-> "null", entries |-> <<>>]
JBool(s) == [kind |-> "BOOL", str |-> s, entries |-> <<>>]
JObject(e) == [kind |-> "OBJECT", str |-> "", entries |-> e]
\* TypedMap.get of a key the object does not have: null
Missing == [kind |-> "MISSING", str |-> "", entries |-> <<>>]

\* TypedMap.get(key)
Get(obj, key) == IF key \in DOMAIN obj.entries THEN obj.entries[key] ELSE Missing

\* the fetched files: text is content.toString(), json is json.fromBytes(content)
Payloads ==
  << [text |-> "{\"description\":\"hi\",\"image\":\"http://x\"}",
      json |-> JObject([description |-> JString("hi"), image |-> JString("http://x")])],
     [text |-> "{\"content\":{\"uri\":\"ipfs://abc\"},\"description\":7,\"attributes\":[1]}",
      json |-> JObject([content |-> JObject([uri |-> JString("ipfs://abc")]),
                        description |-> JNumber("7"),
                        attributes |-> JArray("[1]")])],
     [text |-> "not json at all",
      json |-> JNull],
     [text |-> "{\"content\":\"post\",\"external_url\":\"http://e\"}",
      json |-> JObject([content |-> JString("post"), external_url |-> JString("http://e")])],
     [text |-> "{\"description\":\"hi\",\"image\":\"http://x\"} GARBAGE",
      json |-> JNull],
     [text |-> "{\"content\":{\"uri\":7,\"mime\":\"text/plain\"}}",
      json |-> JObject([content |-> JObject([uri |-> JNumber("7"), mime |-> JString("text/plain")])])],
     [text |-> "{\"content\":{\"mime\":\"text/plain\"},\"image\":\"http://i\"}",
      json |-> JObject([content |-> JObject([mime |-> JString("text/plain")]), image |-> JString("http://i")])],
     [text |-> "{\"content\":7,\"description\":\"d\"}",
      json |-> JObject([content |-> JNumber("7"), description |-> JString("d")])],
     [text |-> "{\"content\":[\"a\"],\"attributes\":[{\"trait_type\":\"t\",\"value\":\"v\"}]}",
      json |-> JObject([content |-> JArray("[\"a\"]"),
                        attributes |-> JArray("[{\"trait_type\":\"t\",\"value\":\"v\"}]")])],
     [text |-> "{\"description\":[\"d\"],\"image\":{\"a\":1},\"external_url\":\"http://e\",\"attributes\":\"red\",\"content\":null}",
      json |-> JObject([description |-> JArray("[\"d\"]"), image |-> JObject([a |-> JNumber("1")]),
                        external_url |-> JString("http://e"), attributes |-> JString("red"),
                        content |-> JNull])],
     [text |-> "{}",
      json |-> JObject(<<>>)],
     [text |-> "{\"description\":\"\",\"image\":\"\",\"external_url\":true,\"attributes\":[]}",
      json |-> JObject([description |-> JString(""), image |-> JString(""),
                        external_url |-> JBool("true"), attributes |-> JArray("[]")])],
     [text |-> "[1,2]",
      json |-> JArray("[1,2]")],
     [text |-> "\"just a string\"",
      json |-> JString("just a string")],
     [text |-> "7",
      json |-> JNumber("7")],
     [text |-> "true",
      json |-> JBool("true")],
     [text |-> "null",
      json |-> JNull] >>

\* the payloads that are JSON documents or plain text
PayloadIds == 1..4

\* the first payload as it is and followed by trailing garbage, which makes
\* it no JSON document
TrailingPayloadIds == {1, 5}

\* every payload: 6..12 are JSON objects whose keys are missing or hold the
\* kinds the handler tests for and others, 13..17 are JSON documents that are
\* no object
FieldPayloadIds == 1..Len(Payloads)
NonObjectPayloadIds == 13..17

\* the reference used where the payload is what varies: ipfs://a
FieldURIs == {<<"i","p","f","s",":","/","/","a">>}

\* json.fromBytes(content)
json_fromBytes(content) == content.json

(* ------------------------------- state -------------------------------- *)
VARIABLES
  User,                  \* User entities by address
  Post,                  \* Post entities by coin address
  ContentCoin,           \* ContentCoin entities by coin address
  CreatorCoin,           \* CreatorCoin entities by creator address
  ContentCoinTemplate,   \* coin contracts being tracked
  PostMetadataTemplate,  \* CID -> number of File Data Sources requested
  PostMetadata,          \* PostMetadata entities by CID
  delivered,             \* CID -> payload ids of the completions delivered, in order
  saves,                 \* CID -> number of PostMetadata save() calls executed
  inst,                  \* handlePostMetadata instances run step by step:
                         \* position, CID, payload id, the local entity and
                         \* whether the first load returned null
  call,                  \* one helper call: the function, its arguments and,
                         \* once it has returned, its result
  Mint,                  \* Mint entities by id
  Transfer,              \* Transfer entities by id
  logIndex               \* the log index of the next Transfer or Mint event

vars == <<User, Post, ContentCoin, CreatorCoin, ContentCoinTemplate,
          PostMetadataTemplate, PostMetadata, delivered, saves, inst, call,
          Mint, Transfer, logIndex>>

\* what the Transfer and Mint handlers keep of the events they have handled
eventLog == <<Mint, Transfer, logIndex>>

Instances == 1..MaxInstances

\* instances are interchangeable: they are started in the order of their numbers
MayStart(i) == inst[i].pc = "idle" /\ \A j \in 1..(i - 1) : inst[j].pc # "idle"

\* the event callers and payloads used where handler steps interleave
StepCallers == {"u1"}
StepPayloadIds == {1, 3}

\* no helper call is in progress
NoCall == [fn |-> "none"]

\* an instance that has not been started
Idle == [pc |-> "idle", cid |-> <<>>, pid |-> 0, metadata |-> None, created |-> FALSE]

\* the number of completions delivered so far for the CIDs in S
RECURSIVE Deliveries(_)
Deliveries(S) ==
  IF S = {} THEN 0
  ELSE LET c == CHOOSE x \in S : TRUE
       IN  Len(delivered[c]) + Deliveries(S \ {c})

\* the graph node may deliver one more completion
MayDeliver == Deliveries(Identifiers) < MaxCompletions

\* store.set(id, entity)
Put(store, id, entity) ==
  [k \in (DOMAIN store) \cup {id} |-> IF k = id THEN entity ELSE store[k]]

Init ==
  /\ User = <<>>
  /\ Post = <<>>
  /\ ContentCoin = <<>>
  /\ CreatorCoin = <<>>
  /\ ContentCoinTemplate = {}
  /\ PostMetadataTemplate = [c \in Identifiers |-> 0]
  /\ PostMetadata = <<>>
  /\ delivered = [c \in Identifiers |-> <<>>]
  /\ saves = [c \in Identifiers |-> 0]
  /\ inst = [i \in Instances |-> Idle]
  /\ call = NoCall
  /\ Mint = <<>>
  /\ Transfer = <<>>
  /\ logIndex = 0

\* new PostMetadata(cid): every field but the id unset
NewPostMetadata(cid) ==
  [id |-> cid, contentType |-> None, metadata |-> None, description |-> None,
   image |-> None, externalUrl |-> None, content |-> None, attributes |-> None]

(* ------------------- ipfs-handler.ts, called alone -------------------- *)
\* the helper calls a run starts with
HelperCalls ==
  {[fn |-> "extractIPFSHash", uri |-> u, hash |-> <<>>, gatewayIndex |-> 0,
    returned |-> FALSE, result |-> <<>>] : u \in HelperURIs}
  \cup
  {[fn |-> "buildIPFSURL", uri |-> <<>>, hash |-> h, gatewayIndex |-> g,
    returned |-> FALSE, result |-> <<>>] : h \in Hashes, g \in GatewayIndexes}

InitHelpers ==
  /\ User = <<>>
  /\ Post = <<>>
  /\ ContentCoin = <<>>
  /\ CreatorCoin = <<>>
  /\ ContentCoinTemplate = {}
  /\ PostMetadataTemplate = [c \in Identifiers |-> 0]
  /\ PostMetadata = <<>>
  /\ delivered = [c \in Identifiers |-> <<>>]
  /\ saves = [c \in Identifiers |-> 0]
  /\ inst = [i \in Instances |-> Idle]
  /\ call \in HelperCalls
  /\ Mint = <<>>
  /\ Transfer = <<>>
  /\ logIndex = 0

\* extractIPFSHash(uri) is called and returns
extractIPFSHash_call ==
  /\ call.fn = "extractIPFSHash"
  /\ ~call.returned
  /\ call' = [call EXCEPT !.returned = TRUE, !.result = extractIPFSHash(call.uri)]
  /\ UNCHANGED <<User, Post, ContentCoin, CreatorCoin, ContentCoinTemplate,
                 PostMetadataTemplate, PostMetadata, delivered, saves, inst, eventLog>>

\* buildIPFSURL(hash, gatewayIndex) is called and returns
buildIPFSURL_call ==
  /\ call.fn = "buildIPFSURL"
  /\ ~call.returned
  /\ call' = [call EXCEPT !.returned = TRUE,
                          !.result = buildIPFSURL(call.hash, call.gatewayIndex)]
  /\ UNCHANGED <<User, Post, ContentCoin, CreatorCoin, ContentCoinTemplate,
                 PostMetadataTemplate, PostMetadata, delivered, saves, inst, eventLog>>

(* ----------------------------- mapping.ts ----------------------------- *)
\* processIPFSURI that stores the hash and the link but spawns no data source
processIPFSURI_noSpawn(post, contentURI) ==
  LET hash == extractIPFSHash(contentURI)
  IN  IF Len(hash) = 0
      THEN [post |-> post, spawn |-> None]
      ELSE [post |-> [post EXCEPT !.ipfsHash = Some(hash),
                                  !.ipfsGatewayURL = Some(buildIPFSURL(hash, 0)),
                                  !.metadata = Some(hash)],
            spawn |-> None]

\* processIPFSURI without its early return: an empty hash is stored, linked
\* and handed to PostMetadataTemplate.create like any other
processIPFSURI_noGuard(post, contentURI) ==
  LET hash == extractIPFSHash(contentURI)
  IN  [post |-> [post EXCEPT !.ipfsHash = Some(hash),
                             !.ipfsGatewayURL = Some(buildIPFSURL(hash, 0)),
                             !.metadata = Some(hash)],
       spawn |-> Some(hash)]

\* processIPFSURI that links the post to a record keyed by the URI as written
processIPFSURI_linkURI(post, contentURI) ==
  LET hash == extractIPFSHash(contentURI)
  IN  IF Len(hash) = 0
      THEN [post |-> post, spawn |-> None]
      ELSE [post |-> [post EXCEPT !.ipfsHash = Some(hash),
                                  !.ipfsGatewayURL = Some(buildIPFSURL(hash, 0)),
                                  !.metadata = Some(contentURI)],
            spawn |-> Some(hash)]

\* processIPFSURI that links the post to the second gateway of the list
processIPFSURI_secondGateway(post, contentURI) ==
  LET hash == extractIPFSHash(contentURI)
  IN  IF Len(hash) = 0
      THEN [post |-> post, spawn |-> None]
      ELSE [post |-> [post EXCEPT !.ipfsHash = Some(hash),
                                  !.ipfsGatewayURL = Some(buildIPFSURL(hash, 1)),
                                  !.metadata = Some(hash)],
            spawn |-> Some(hash)]

\* processIPFSURI that returns early on an empty URI, not on an empty hash
processIPFSURI_guardOnURI(post, contentURI) ==
  LET hash == extractIPFSHash(contentURI)
  IN  IF Len(contentURI) = 0
      THEN [post |-> post, spawn |-> None]
      ELSE [post |-> [post EXCEPT !.ipfsHash = Some(hash),
                                  !.ipfsGatewayURL = Some(buildIPFSURL(hash, 0)),
                                  !.metadata = Some(hash)],
            spawn |-> Some(hash)]

\* processIPFSURI(post, contentURI): the post as it leaves the function and
\* the CID handed to PostMetadataTemplate.create, None when it returns early
processIPFSURI(post, contentURI) ==
  LET hash == extractIPFSHash(contentURI)
  IN  IF Len(hash) = 0
      THEN [post |-> post, spawn |-> None]
      ELSE [post |-> [post EXCEPT !.ipfsHash = Some(hash),
                                  !.ipfsGatewayURL = Some(buildIPFSURL(hash, 0)),
                                  !.metadata = Some(hash)],
            spawn |-> Some(hash)]

\* new User(address) with its five counters at zero
NewUser ==
  [totalPosts |-> 0, totalMints |-> 0, totalTransfers |-> 0,
   totalSwaps |-> 0, totalRewards |-> 0]

\* the writes of handleCoinCreatedV4 with a caller that is never loaded: its
\* User is written anew with one post
CoinCreatedV4Writes_freshUser(caller, coin, uri) ==
  LET post == [creator |-> caller, content |-> uri, contentURI |-> uri,
               totalSupply |-> 0, totalMints |-> 0, totalTransfers |-> 0,
               totalSwaps |-> 0, totalHolders |-> 0,
               ipfsHash |-> None, ipfsGatewayURL |-> None, metadata |-> None]
      r == processIPFSURI(post, uri)
  IN  /\ coin \notin ContentCoinTemplate
      /\ User' = Put(User, caller, [NewUser EXCEPT !.totalPosts = 1])
      /\ Post' = Put(Post, coin, r.post)
      /\ PostMetadataTemplate' =
           IF r.spawn = None THEN PostMetadataTemplate
           ELSE [PostMetadataTemplate EXCEPT ![r.spawn[1]] = @ + 1]
      /\ ContentCoin' = Put(ContentCoin, coin,
           [post |-> coin, creator |-> caller,
            totalSupply |-> 0, totalMints |-> 0, totalTransfers |-> 0])
      /\ CreatorCoin' =
           IF caller \in DOMAIN CreatorCoin THEN CreatorCoin
           ELSE Put(CreatorCoin, caller,
                    [creator |-> caller, totalSupply |-> 0, totalHolders |-> 0])
      /\ ContentCoinTemplate' = ContentCoinTemplate \cup {coin}

\* handleCoinCreatedV4, the entities and data sources it writes.  The event's
\* name, symbol, block and transaction fields are copied into the entities
\* unchanged and are left out.  The factory emits one event per coin address.
CoinCreatedV4Writes(caller, coin, uri) ==
  LET user == IF caller \in DOMAIN User THEN User[caller] ELSE NewUser
      post == [creator |-> caller, content |-> uri, contentURI |-> uri,
               totalSupply |-> 0, totalMints |-> 0, totalTransfers |-> 0,
               totalSwaps |-> 0, totalHolders |-> 0,
               ipfsHash |-> None, ipfsGatewayURL |-> None, metadata |-> None]
      r == processIPFSURI(post, uri)
  IN  /\ coin \notin ContentCoinTemplate
      /\ User' = Put(User, caller, [user EXCEPT !.totalPosts = @ + 1])
      /\ Post' = Put(Post, coin, r.post)
      /\ PostMetadataTemplate' =
           IF r.spawn = None THEN PostMetadataTemplate
           ELSE [PostMetadataTemplate EXCEPT ![r.spawn[1]] = @ + 1]
      /\ ContentCoin' = Put(ContentCoin, coin,
           [post |-> coin, creator |-> caller,
            totalSupply |-> 0, totalMints |-> 0, totalTransfers |-> 0])
      /\ CreatorCoin' =
           IF caller \in DOMAIN CreatorCoin THEN CreatorCoin
           ELSE Put(CreatorCoin, caller,
                    [creator |-> caller, totalSupply |-> 0, totalHolders |-> 0])
      /\ ContentCoinTemplate' = ContentCoinTemplate \cup {coin}

\* handleCoinCreatedV4 that also ensures a shell: saves an empty PostMetadata
\* for the hash when none is stored
handleCoinCreatedV4_ensureShell(caller, coin, uri) ==
  LET hash == extractIPFSHash(uri)
  IN  /\ CoinCreatedV4Writes(caller, coin, uri)
      /\ IF Len(hash) = 0 \/ hash \in DOMAIN PostMetadata
         THEN UNCHANGED <<PostMetadata, saves>>
         ELSE /\ PostMetadata' = Put(PostMetadata, hash, NewPostMetadata(hash))
              /\ saves' = [saves EXCEPT ![hash] = @ + 1]
      /\ UNCHANGED <<delivered, inst, call, eventLog>>

\* handleCoinCreatedV4 that saves an empty PostMetadata for the hash every time
handleCoinCreatedV4_saveShell(caller, coin, uri) ==
  LET hash == extractIPFSHash(uri)
  IN  /\ CoinCreatedV4Writes(caller, coin, uri)
      /\ IF Len(hash) = 0
         THEN UNCHANGED <<PostMetadata, saves>>
         ELSE /\ PostMetadata' = Put(PostMetadata, hash, NewPostMetadata(hash))
              /\ saves' = [saves EXCEPT ![hash] = @ + 1]
      /\ UNCHANGED <<delivered, inst, call, eventLog>>

\* handleCoinCreatedV4 that reads the file itself and stores it as raw
\* content, as a handler calling ipfs.cat would
handleCoinCreatedV4_fetchInline(caller, coin, uri) ==
  LET hash == extractIPFSHash(uri)
  IN  /\ CoinCreatedV4Writes(caller, coin, uri)
      /\ IF Len(hash) = 0
         THEN UNCHANGED <<PostMetadata, saves>>
         ELSE /\ PostMetadata' = Put(PostMetadata, hash,
                                     [NewPostMetadata(hash) EXCEPT
                                        !.contentType = Some("text/plain"),
                                        !.content = Some(Payloads[1].text)])
              /\ saves' = [saves EXCEPT ![hash] = @ + 1]
      /\ UNCHANGED <<delivered, inst, call, eventLog>>

\* handleCoinCreatedV4(event): a chain handler, it touches no PostMetadata
handleCoinCreatedV4(caller, coin, uri) ==
  /\ CoinCreatedV4Writes(caller, coin, uri)
  /\ UNCHANGED <<PostMetadata, delivered, saves, inst, call, eventLog>>

\* logIndex.toHexString().slice(2): the hexadecimal digits of a number
HexDigits == <<"0","1","2","3","4","5","6","7","8","9","a","b","c","d","e","f">>

RECURSIVE ToHex(_)
ToHex(n) ==
  IF n < Len(HexDigits) THEN <<HexDigits[n + 1]>>
  ELSE ToHex(n \div Len(HexDigits)) \o <<HexDigits[(n % Len(HexDigits)) + 1]>>

\* createId that leaves the log index out of the id
createId_hashOnly(prefix, hash, index) == <<hash>>

\* createId(prefix, hash, logIndex): the transaction hash followed by the
\* hexadecimal digits of the log index, padded with a 0 to an even count; the
\* prefix is not part of the id
createId(prefix, hash, index) ==
  LET logIndexStr == ToHex(index)
  IN  <<hash>> \o (IF Len(logIndexStr) % 2 # 0 THEN <<"0">> \o logIndexStr
                   ELSE logIndexStr)

\* handleContentCoinTransfer that never takes the mint branch
handleContentCoinTransfer_noMintBranch(coin, from, to, value) ==
  LET users == IF from \notin DOMAIN User THEN Put(User, from, NewUser) ELSE User
      toUser == IF to \in DOMAIN users THEN users[to] ELSE NewUser
  IN  /\ logIndex < MaxEvents
      /\ logIndex' = logIndex + 1
      /\ IF coin \notin DOMAIN Post \/ coin \notin DOMAIN ContentCoin
         THEN /\ User' = users
              /\ UNCHANGED <<Post, ContentCoin, Mint, Transfer>>
         ELSE /\ User' =
                   IF from # to
                   THEN Put(Put(users, from, [users[from] EXCEPT !.totalTransfers = @ + 1]),
                            to, [toUser EXCEPT !.totalTransfers = @ + 1])
                   ELSE users
              /\ Transfer' = Put(Transfer, createId("content-", TxHash, logIndex),
                                 [post |-> coin, contentCoin |-> coin,
                                  from |-> from, to |-> to, amount |-> value])
              /\ Post' = [Post EXCEPT ![coin].totalTransfers = @ + 1]
              /\ ContentCoin' = [ContentCoin EXCEPT ![coin].totalTransfers = @ + 1]
              /\ UNCHANGED Mint
      /\ UNCHANGED <<CreatorCoin, ContentCoinTemplate, PostMetadataTemplate,
                     PostMetadata, delivered, saves, inst, call>>

\* handleContentCoinTransfer(event), event.address being coin.  The block and
\* transaction fields copied into the Mint and Transfer entities are left out.
handleContentCoinTransfer(coin, from, to, value) ==
  LET isMint == from = ZeroAddress
      \* the store after fromUser.save() of line 176
      users == IF from \notin DOMAIN User /\ ~isMint THEN Put(User, from, NewUser) ELSE User
      toUser == IF to \in DOMAIN users THEN users[to] ELSE NewUser
  IN  /\ logIndex < MaxEvents
      /\ logIndex' = logIndex + 1
      /\ IF coin \notin DOMAIN Post \/ coin \notin DOMAIN ContentCoin
         THEN /\ User' = users
              /\ UNCHANGED <<Post, ContentCoin, Mint, Transfer>>
         ELSE IF isMint
         THEN /\ User' = Put(users, to, [toUser EXCEPT !.totalMints = @ + 1])
              /\ Mint' = Put(Mint, createId("mint-", TxHash, logIndex),
                             [post |-> coin, contentCoin |-> coin,
                              minter |-> to, amount |-> value])
              /\ Post' = [Post EXCEPT ![coin].totalMints = @ + 1,
                                      ![coin].totalSupply = @ + value]
              /\ ContentCoin' = [ContentCoin EXCEPT ![coin].totalMints = @ + 1,
                                                    ![coin].totalSupply = @ + value]
              /\ UNCHANGED Transfer
         ELSE /\ User' =
                   IF from # to
                   THEN Put(Put(users, from, [users[from] EXCEPT !.totalTransfers = @ + 1]),
                            to, [toUser EXCEPT !.totalTransfers = @ + 1])
                   ELSE users
              /\ Transfer' = Put(Transfer, createId("content-", TxHash, logIndex),
                                 [post |-> coin, contentCoin |-> coin,
                                  from |-> from, to |-> to, amount |-> value])
              /\ Post' = [Post EXCEPT ![coin].totalTransfers = @ + 1]
              /\ ContentCoin' = [ContentCoin EXCEPT ![coin].totalTransfers = @ + 1]
              /\ UNCHANGED Mint
      /\ UNCHANGED <<CreatorCoin, ContentCoinTemplate, PostMetadataTemplate,
                     PostMetadata, delivered, saves, inst, call>>

\* handleContentCoinMint that saves a post whose metadata link is cleared
handleContentCoinMint_resetLink(coin, to, amount) ==
  LET user == IF to \in DOMAIN User THEN User[to] ELSE NewUser
  IN  /\ logIndex < MaxEvents
      /\ logIndex' = logIndex + 1
      /\ User' = Put(User, to, [user EXCEPT !.totalMints = @ + 1])
      /\ IF coin \notin DOMAIN Post \/ coin \notin DOMAIN ContentCoin
         THEN UNCHANGED <<Post, ContentCoin, Mint>>
         ELSE /\ Mint' = Put(Mint, createId("mint-", TxHash, logIndex),
                             [post |-> coin, contentCoin |-> coin,
                              minter |-> to, amount |-> amount])
              /\ Post' = [Post EXCEPT ![coin].totalMints = @ + 1,
                                      ![coin].totalSupply = @ + amount,
                                      ![coin].metadata = None]
              /\ ContentCoin' = [ContentCoin EXCEPT ![coin].totalMints = @ + 1,
                                                    ![coin].totalSupply = @ + amount]
      /\ UNCHANGED <<Transfer, CreatorCoin, ContentCoinTemplate, PostMetadataTemplate,
                     PostMetadata, delivered, saves, inst, call>>

\* handleContentCoinMint that updates the post's statistics only
handleContentCoinMint_postOnly(coin, to, amount) ==
  LET user == IF to \in DOMAIN User THEN User[to] ELSE NewUser
  IN  /\ logIndex < MaxEvents
      /\ logIndex' = logIndex + 1
      /\ User' = Put(User, to, [user EXCEPT !.totalMints = @ + 1])
      /\ IF coin \notin DOMAIN Post \/ coin \notin DOMAIN ContentCoin
         THEN UNCHANGED <<Post, ContentCoin, Mint>>
         ELSE /\ Mint' = Put(Mint, createId("mint-", TxHash, logIndex),
                             [post |-> coin, contentCoin |-> coin,
                              minter |-> to, amount |-> amount])
              /\ Post' = [Post EXCEPT ![coin].totalMints = @ + 1,
                                      ![coin].totalSupply = @ + amount]
              /\ UNCHANGED ContentCoin
      /\ UNCHANGED <<Transfer, CreatorCoin, ContentCoinTemplate, PostMetadataTemplate,
                     PostMetadata, delivered, saves, inst, call>>

\* handleContentCoinMint(event), event.address being coin
handleContentCoinMint(coin, to, amount) ==
  LET user == IF to \in DOMAIN User THEN User[to] ELSE NewUser
  IN  /\ logIndex < MaxEvents
      /\ logIndex' = logIndex + 1
      /\ User' = Put(User, to, [user EXCEPT !.totalMints = @ + 1])
      /\ IF coin \notin DOMAIN Post \/ coin \notin DOMAIN ContentCoin
         THEN UNCHANGED <<Post, ContentCoin, Mint>>
         ELSE /\ Mint' = Put(Mint, createId("mint-", TxHash, logIndex),
                             [post |-> coin, contentCoin |-> coin,
                              minter |-> to, amount |-> amount])
              /\ Post' = [Post EXCEPT ![coin].totalMints = @ + 1,
                                      ![coin].totalSupply = @ + amount]
              /\ ContentCoin' = [ContentCoin EXCEPT ![coin].totalMints = @ + 1,
                                                    ![coin].totalSupply = @ + amount]
      /\ UNCHANGED <<Transfer, CreatorCoin, ContentCoinTemplate, PostMetadataTemplate,
                     PostMetadata, delivered, saves, inst, call>>

\* handleCreatorCoinTransfer(event): user statistics only
handleCreatorCoinTransfer(from, to, value) ==
  LET \* the store after the two users have been created where missing
      withFrom == IF from \notin DOMAIN User THEN Put(User, from, NewUser) ELSE User
      users == IF to \notin DOMAIN withFrom THEN Put(withFrom, to, NewUser) ELSE withFrom
  IN  /\ logIndex < MaxEvents
      /\ logIndex' = logIndex + 1
      /\ User' =
           IF from # to
           THEN Put(Put(users, from, [users[from] EXCEPT !.totalTransfers = @ + 1]),
                    to, [users[to] EXCEPT !.totalTransfers = @ + 1])
           ELSE users
      /\ UNCHANGED <<Post, ContentCoin, CreatorCoin, ContentCoinTemplate,
                     PostMetadataTemplate, PostMetadata, delivered, saves, inst, call,
                     Mint, Transfer>>

(* ------------------------- ipfs-file-handler.ts ----------------------- *)
\* a field assigned from whatever value the key holds
SetIfKind_anyKind(old, v, kind) == IF v.kind # "MISSING" THEN Some(v.str) ELSE old

\* a field assigned only under "v != null && v.kind === kind"
SetIfKind(old, v, kind) == IF v.kind = kind THEN Some(v.str) ELSE old

\* the content field taken from a string only
ExtractContent_stringOnly(old, contentField) ==
  IF contentField.kind = "STRING" THEN Some(contentField.str) ELSE old

\* the content field: a string, or an object carrying a string uri
ExtractContent(old, contentField) ==
  IF contentField.kind = "STRING" THEN Some(contentField.str)
  ELSE IF contentField.kind = "OBJECT"
       THEN SetIfKind(old, Get(contentField, "uri"), "STRING")
       ELSE old

\* the parse-and-extract part that keeps raw text under metadata and leaves
\* content unset
ParseInto_rawAsMetadata(metadata, content) ==
  LET jsonValue == json_fromBytes(content)
  IN  IF jsonValue.kind = "OBJECT"
      THEN [metadata EXCEPT
              !.contentType = Some("application/json"),
              !.metadata = Some(content.text),
              !.description = SetIfKind(@, Get(jsonValue, "description"), "STRING"),
              !.image = SetIfKind(@, Get(jsonValue, "image"), "STRING"),
              !.externalUrl = SetIfKind(@, Get(jsonValue, "external_url"), "STRING"),
              !.content = ExtractContent(@, Get(jsonValue, "content")),
              !.attributes = SetIfKind(@, Get(jsonValue, "attributes"), "ARRAY")]
      ELSE [metadata EXCEPT
              !.contentType = Some("text/plain"),
              !.metadata = Some(content.text)]

\* the parse-and-extract part that takes the raw branch only for a value of
\* kind NULL
ParseInto_anyJson(metadata, content) ==
  LET jsonValue == json_fromBytes(content)
  IN  IF jsonValue.kind # "NULL"
      THEN [metadata EXCEPT
              !.contentType = Some("application/json"),
              !.metadata = Some(content.text),
              !.description = SetIfKind(@, Get(jsonValue, "description"), "STRING"),
              !.image = SetIfKind(@, Get(jsonValue, "image"), "STRING"),
              !.externalUrl = SetIfKind(@, Get(jsonValue, "external_url"), "STRING"),
              !.content = ExtractContent(@, Get(jsonValue, "content")),
              !.attributes = SetIfKind(@, Get(jsonValue, "attributes"), "ARRAY")]
      ELSE [metadata EXCEPT
              !.contentType = Some("text/plain"),
              !.content = Some(content.text)]

\* the parse-and-extract part of handlePostMetadata, applied to the entity
ParseInto(metadata, content) ==
  LET jsonValue == json_fromBytes(content)
  IN  IF jsonValue.kind = "OBJECT"
      THEN [metadata EXCEPT
              !.contentType = Some("application/json"),
              !.metadata = Some(content.text),
              !.description = SetIfKind(@, Get(jsonValue, "description"), "STRING"),
              !.image = SetIfKind(@, Get(jsonValue, "image"), "STRING"),
              !.externalUrl = SetIfKind(@, Get(jsonValue, "external_url"), "STRING"),
              !.content = ExtractContent(@, Get(jsonValue, "content")),
              !.attributes = SetIfKind(@, Get(jsonValue, "attributes"), "ARRAY")]
      ELSE [metadata EXCEPT
              !.contentType = Some("text/plain"),
              !.content = Some(content.text)]

\* handlePostMetadata(content) run as one step, dataSource.stringParam()
\* being cid
handlePostMetadataRun(cid, pid) ==
  /\ MayDeliver
  /\ delivered' = [delivered EXCEPT ![cid] = Append(@, pid)]
  /\ IF cid \in DOMAIN PostMetadata
     THEN UNCHANGED <<PostMetadata, saves>>
     ELSE LET metadata == ParseInto(NewPostMetadata(cid), Payloads[pid])
          IN  IF cid \in DOMAIN PostMetadata
              THEN UNCHANGED <<PostMetadata, saves>>
              ELSE /\ PostMetadata' = Put(PostMetadata, cid, metadata)
                   /\ saves' = [saves EXCEPT ![cid] = @ + 1]
  /\ UNCHANGED <<eventLog, call, User, Post, ContentCoin, CreatorCoin, ContentCoinTemplate,
                 PostMetadataTemplate, inst>>

\* handlePostMetadata without its two existence checks: parse and save always
handlePostMetadata_overwrite(cid, pid) ==
  /\ PostMetadataTemplate[cid] > 0
  /\ MayDeliver
  /\ delivered' = [delivered EXCEPT ![cid] = Append(@, pid)]
  /\ PostMetadata' = Put(PostMetadata, cid, ParseInto(NewPostMetadata(cid), Payloads[pid]))
  /\ saves' = [saves EXCEPT ![cid] = @ + 1]
  /\ UNCHANGED <<eventLog, call, User, Post, ContentCoin, CreatorCoin, ContentCoinTemplate,
                 PostMetadataTemplate, inst>>

\* handlePostMetadata that loads the stored entity, writes the parsed fields
\* into it and saves it again
handlePostMetadata_update(cid, pid) ==
  /\ PostMetadataTemplate[cid] > 0
  /\ MayDeliver
  /\ delivered' = [delivered EXCEPT ![cid] = Append(@, pid)]
  /\ LET loaded == IF cid \in DOMAIN PostMetadata THEN PostMetadata[cid]
                   ELSE NewPostMetadata(cid)
     IN  PostMetadata' = Put(PostMetadata, cid, ParseInto(loaded, Payloads[pid]))
  /\ saves' = [saves EXCEPT ![cid] = @ + 1]
  /\ UNCHANGED <<eventLog, call, User, Post, ContentCoin, CreatorCoin, ContentCoinTemplate,
                 PostMetadataTemplate, inst>>

\* handlePostMetadata that saves only what parsed as an object and drops the rest
handlePostMetadata_structuredOnly(cid, pid) ==
  /\ PostMetadataTemplate[cid] > 0
  /\ MayDeliver
  /\ delivered' = [delivered EXCEPT ![cid] = Append(@, pid)]
  /\ IF cid \in DOMAIN PostMetadata \/ json_fromBytes(Payloads[pid]).kind # "OBJECT"
     THEN UNCHANGED <<PostMetadata, saves>>
     ELSE /\ PostMetadata' = Put(PostMetadata, cid,
                                 ParseInto(NewPostMetadata(cid), Payloads[pid]))
          /\ saves' = [saves EXCEPT ![cid] = @ + 1]
  /\ UNCHANGED <<eventLog, call, User, Post, ContentCoin, CreatorCoin, ContentCoinTemplate,
                 PostMetadataTemplate, inst>>

\* handlePostMetadata that treats a completion with no stored entity as an
\* anomaly and returns without creating one
handlePostMetadata_noCreate(cid, pid) ==
  /\ PostMetadataTemplate[cid] > 0
  /\ MayDeliver
  /\ delivered' = [delivered EXCEPT ![cid] = Append(@, pid)]
  /\ UNCHANGED <<PostMetadata, saves>>
  /\ UNCHANGED <<eventLog, call, User, Post, ContentCoin, CreatorCoin, ContentCoinTemplate,
                 PostMetadataTemplate, inst>>

\* the handler run that waits until every other requested CID has its record
handlePostMetadata_waitForOthers(cid, pid) ==
  /\ PostMetadataTemplate[cid] > 0
  /\ \A other \in CIDs \ {cid} :
       PostMetadataTemplate[other] > 0 => other \in DOMAIN PostMetadata
  /\ handlePostMetadataRun(cid, pid)

\* the handler run for the data source of cid: delivered only for a CID that
\* PostMetadataTemplate.create was called with
handlePostMetadata(cid, pid) ==
  /\ PostMetadataTemplate[cid] > 0
  /\ handlePostMetadataRun(cid, pid)

(* -------------- ipfs-file-handler.ts, one statement group a step ------ *)
\* lines 18-36: read the CID, first load; return if the entity exists, else
\* create the local entity
handlePostMetadata_firstLoad(i, cid, pid) ==
  /\ MayStart(i)
  /\ PostMetadataTemplate[cid] > 0
  /\ MayDeliver
  /\ delivered' = [delivered EXCEPT ![cid] = Append(@, pid)]
  /\ inst' = [inst EXCEPT ![i] =
               IF cid \in DOMAIN PostMetadata
               THEN [pc |-> "done", cid |-> cid, pid |-> pid, metadata |-> None,
                     created |-> FALSE]
               ELSE [pc |-> "parse", cid |-> cid, pid |-> pid,
                     metadata |-> Some(NewPostMetadata(cid)), created |-> TRUE]]
  /\ UNCHANGED <<eventLog, call, User, Post, ContentCoin, CreatorCoin, ContentCoinTemplate,
                 PostMetadataTemplate, PostMetadata, saves>>

\* the parse step that fills no field of the local entity
handlePostMetadata_parse_noKind(i) ==
  /\ inst[i].pc = "parse"
  /\ inst' = [inst EXCEPT ![i].pc = "finalCheck"]
  /\ UNCHANGED <<eventLog, call, User, Post, ContentCoin, CreatorCoin, ContentCoinTemplate,
                 PostMetadataTemplate, PostMetadata, delivered, saves>>

\* lines 38-95: parse the bytes and fill the local entity
handlePostMetadata_parse(i) ==
  /\ inst[i].pc = "parse"
  /\ inst' = [inst EXCEPT ![i].pc = "finalCheck",
                          ![i].metadata = Some(ParseInto(@[1], Payloads[inst[i].pid]))]
  /\ UNCHANGED <<eventLog, call, User, Post, ContentCoin, CreatorCoin, ContentCoinTemplate,
                 PostMetadataTemplate, PostMetadata, delivered, saves>>

\* lines 97-104: second load; return if the entity exists by now
handlePostMetadata_finalCheck(i) ==
  /\ inst[i].pc = "finalCheck"
  /\ inst' = [inst EXCEPT ![i].pc =
               IF inst[i].cid \in DOMAIN PostMetadata THEN "done" ELSE "save"]
  /\ UNCHANGED <<eventLog, call, User, Post, ContentCoin, CreatorCoin, ContentCoinTemplate,
                 PostMetadataTemplate, PostMetadata, delivered, saves>>

\* the save step that also asks for the file again
handlePostMetadata_save_refetch(i) ==
  /\ inst[i].pc = "save"
  /\ PostMetadata' = Put(PostMetadata, inst[i].cid, inst[i].metadata[1])
  /\ saves' = [saves EXCEPT ![inst[i].cid] = @ + 1]
  /\ inst' = [inst EXCEPT ![i].pc = "done"]
  /\ PostMetadataTemplate' = [PostMetadataTemplate EXCEPT ![inst[i].cid] = @ + 1]
  /\ UNCHANGED <<eventLog, call, User, Post, ContentCoin, CreatorCoin,
                 ContentCoinTemplate, delivered>>

\* lines 106-109: metadata.save()
handlePostMetadata_save(i) ==
  /\ inst[i].pc = "save"
  /\ PostMetadata' = Put(PostMetadata, inst[i].cid, inst[i].metadata[1])
  /\ saves' = [saves EXCEPT ![inst[i].cid] = @ + 1]
  /\ inst' = [inst EXCEPT ![i].pc = "done"]
  /\ UNCHANGED <<eventLog, call, User, Post, ContentCoin, CreatorCoin, ContentCoinTemplate,
                 PostMetadataTemplate, delivered>>

(* ------ the earlier handler revision (v3.0.5, load-create-reload) ----- *)
\* lines 27-40: load; when null create the entity, save it and reload it
handlePostMetadataShell_load(i, cid, pid) ==
  /\ MayStart(i)
  /\ PostMetadataTemplate[cid] > 0
  /\ MayDeliver
  /\ delivered' = [delivered EXCEPT ![cid] = Append(@, pid)]
  /\ IF cid \in DOMAIN PostMetadata
     THEN UNCHANGED <<PostMetadata, saves>>
     ELSE /\ PostMetadata' = Put(PostMetadata, cid, NewPostMetadata(cid))
          /\ saves' = [saves EXCEPT ![cid] = @ + 1]
  /\ inst' = [inst EXCEPT ![i] = [pc |-> "populate", cid |-> cid, pid |-> pid,
                                  metadata |-> Some(PostMetadata'[cid]),
                                  created |-> cid \notin DOMAIN PostMetadata]]
  /\ UNCHANGED <<eventLog, call, User, Post, ContentCoin, CreatorCoin, ContentCoinTemplate,
                 PostMetadataTemplate>>

\* the populate step with the guard of the later revision: skip when the
\* entity exists
handlePostMetadataShell_skipExisting(i) ==
  /\ inst[i].pc = "populate"
  /\ IF inst[i].cid \in DOMAIN PostMetadata
     THEN UNCHANGED <<PostMetadata, saves>>
     ELSE /\ PostMetadata' = Put(PostMetadata, inst[i].cid,
                                 ParseInto(inst[i].metadata[1], Payloads[inst[i].pid]))
          /\ saves' = [saves EXCEPT ![inst[i].cid] = @ + 1]
  /\ inst' = [inst EXCEPT ![i].pc = "done"]
  /\ UNCHANGED <<eventLog, call, User, Post, ContentCoin, CreatorCoin, ContentCoinTemplate,
                 PostMetadataTemplate, delivered>>

\* lines 42-104: parse the bytes into the loaded entity and save it
handlePostMetadataShell_populate(i) ==
  /\ inst[i].pc = "populate"
  /\ PostMetadata' = Put(PostMetadata, inst[i].cid,
                         ParseInto(inst[i].metadata[1], Payloads[inst[i].pid]))
  /\ saves' = [saves EXCEPT ![inst[i].cid] = @ + 1]
  /\ inst' = [inst EXCEPT ![i].pc = "done"]
  /\ UNCHANGED <<eventLog, call, User, Post, ContentCoin, CreatorCoin, ContentCoinTemplate,
                 PostMetadataTemplate, delivered>>

(* --------------------------- specification ---------------------------- *)
\* every handler run is atomic, as the graph node runs them one at a time
Next ==
  \/ \E caller \in Callers, coin \in Coins, uri \in URIs :
       handleCoinCreatedV4(caller, coin, uri)
  \/ \E cid \in CIDs, pid \in PayloadIds : handlePostMetadata(cid, pid)

Spec == Init /\ [][Next]_vars

\* the steps of handlePostMetadata instances interleave, as when the store
\* gives no transaction around a handler run
NextRace ==
  \/ \E caller \in StepCallers, coin \in Coins, uri \in URIs :
       handleCoinCreatedV4(caller, coin, uri)
  \/ \E i \in Instances, cid \in CIDs, pid \in StepPayloadIds :
       handlePostMetadata_firstLoad(i, cid, pid)
  \/ \E i \in Instances : handlePostMetadata_parse(i)
  \/ \E i \in Instances : handlePostMetadata_finalCheck(i)
  \/ \E i \in Instances : handlePostMetadata_save(i)

SpecRace == Init /\ [][NextRace]_vars

\* the same interleaving for the earlier handler revision
NextShell ==
  \/ \E caller \in StepCallers, coin \in Coins, uri \in URIs :
       handleCoinCreatedV4(caller, coin, uri)
  \/ \E i \in Instances, cid \in CIDs, pid \in StepPayloadIds :
       handlePostMetadataShell_load(i, cid, pid)
  \/ \E i \in Instances : handlePostMetadataShell_populate(i)

SpecShell == Init /\ [][NextShell]_vars

\* the handler is an exported entry point: here it is also run with
\* dataSource.stringParam() returning the empty string
NextEmptyParam ==
  \/ \E caller \in StepCallers, coin \in Coins, uri \in URIs :
       handleCoinCreatedV4(caller, coin, uri)
  \/ \E cid \in CIDs, pid \in StepPayloadIds : handlePostMetadata(cid, pid)
  \/ \E pid \in StepPayloadIds : handlePostMetadataRun(<<>>, pid)

SpecEmptyParam == Init /\ [][NextEmptyParam]_vars

\* the URI helpers called on their own, one call a run
NextHelpers ==
  \/ extractIPFSHash_call
  \/ buildIPFSURL_call

SpecHelpers == InitHelpers /\ [][NextHelpers]_vars

\* completions that carry a JSON object with and without trailing garbage
NextTrailing ==
  \/ \E caller \in StepCallers, coin \in Coins, uri \in URIs :
       handleCoinCreatedV4(caller, coin, uri)
  \/ \E cid \in CIDs, pid \in TrailingPayloadIds : handlePostMetadata(cid, pid)

SpecTrailing == Init /\ [][NextTrailing]_vars

\* completions carrying every kind of payload, for one reference
NextFields ==
  \/ \E caller \in StepCallers, coin \in Coins, uri \in FieldURIs :
       handleCoinCreatedV4(caller, coin, uri)
  \/ \E cid \in CIDs, pid \in FieldPayloadIds : handlePostMetadata(cid, pid)

SpecFields == Init /\ [][NextFields]_vars

\* all chain-event handlers and the file handler; Transfer and Mint events
\* come from the coin contracts that ContentCoinTemplate.create registered
NextChain ==
  \/ \E caller \in StepCallers, coin \in Coins, uri \in FieldURIs :
       handleCoinCreatedV4(caller, coin, uri)
  \/ \E coin \in ContentCoinTemplate, from \in TransferSenders,
        to \in TransferReceivers, value \in Amounts :
       handleContentCoinTransfer(coin, from, to, value)
  \/ \E coin \in ContentCoinTemplate, to \in TransferReceivers, amount \in Amounts :
       handleContentCoinMint(coin, to, amount)
  \/ \E from \in TransferSenders, to \in TransferReceivers, value \in Amounts :
       handleCreatorCoinTransfer(from, to, value)
  \/ \E cid \in CIDs, pid \in TrailingPayloadIds : handlePostMetadata(cid, pid)

SpecChain == Init /\ [][NextChain]_vars

\* Posts created from the content URIs at the edges of extractIPFSHash, and
\* the completions of the fetches they requested
NextProducer ==
  \/ \E caller \in Callers, coin \in Coins, uri \in ProducerURIs :
       handleCoinCreatedV4(caller, coin, uri)
  \/ \E cid \in CIDs, pid \in StepPayloadIds : handlePostMetadata(cid, pid)

SpecProducer == Init /\ [][NextProducer]_vars

\* handler runs under fair scheduling: handlePostMetadata is straight-line
\* code, so a run that has started goes on to its parse, its final check and
\* its save; nothing obliges the chain to emit events or the fetches to
\* complete
NextLive ==
  \/ \E caller \in StepCallers, coin \in Coins, uri \in FieldURIs :
       handleCoinCreatedV4(caller, coin, uri)
  \/ \E i \in Instances, cid \in CIDs, pid \in StepPayloadIds :
       handlePostMetadata_firstLoad(i, cid, pid)
  \/ \E i \in Instances : handlePostMetadata_parse(i)
  \/ \E i \in Instances : handlePostMetadata_finalCheck(i)
  \/ \E i \in Instances : handlePostMetadata_save(i)

Fairness ==
  \A i \in Instances :
    /\ WF_vars(handlePostMetadata_parse(i))
    /\ WF_vars(handlePostMetadata_finalCheck(i))
    /\ WF_vars(handlePostMetadata_save(i))

SpecLive == Init /\ [][NextLive]_vars /\ Fairness

\* Posts for two identifiers and the completions of their fetches
NextFrame ==
  \/ \E caller \in Callers, coin \in Coins, uri \in FrameURIs :
       handleCoinCreatedV4(caller, coin, uri)
  \/ \E cid \in CIDs, pid \in StepPayloadIds : handlePostMetadata(cid, pid)

SpecFrame == Init /\ [][NextFrame]_vars

\* the chain handlers run as exported entry points: Transfer and Mint events
\* arrive at any coin address, whether a Post is stored for it or not
NextUntracked ==
  \/ \E caller \in StepCallers, coin \in Coins, uri \in FieldURIs :
       handleCoinCreatedV4(caller, coin, uri)
  \/ \E coin \in Coins, from \in TransferSenders,
        to \in TransferReceivers, value \in Amounts :
       handleContentCoinTransfer(coin, from, to, value)
  \/ \E coin \in Coins, to \in TransferReceivers, amount \in Amounts :
       handleContentCoinMint(coin, to, amount)

SpecUntracked == Init /\ [][NextUntracked]_vars

\* coins whose only events are Transfers, as emitted by a contract that
\* reports a mint as a Transfer from the zero address
NextTransfers ==
  \/ \E caller \in Callers, coin \in Coins, uri \in FieldURIs :
       handleCoinCreatedV4(caller, coin, uri)
  \/ \E coin \in ContentCoinTemplate, from \in TransferSenders,
        to \in TransferReceivers, value \in Amounts :
       handleContentCoinTransfer(coin, from, to, value)

SpecTransfers == Init /\ [][NextTransfers]_vars

(* --------------------------- lifecycle state -------------------------- *)
\* the resolution record's lifecycle: no entity, an entity with no
\* content-kind yet, an entity with its content-kind written
LifecycleOf(store, cid) ==
  IF cid \notin DOMAIN store THEN "ABSENT"
  ELSE IF store[cid].contentType = None THEN "SHELL"
  ELSE "POPULATED"

LifecycleState(cid) == LifecycleOf(PostMetadata, cid)

TypeOK ==
  /\ DOMAIN User \subseteq Addresses
  /\ DOMAIN Post \subseteq Coins
  /\ DOMAIN PostMetadata \subseteq Identifiers
  /\ \A c \in Identifiers : saves[c] \in 0..(2 * MaxCompletions) /\ Len(delivered[c]) <= MaxCompletions
  /\ \A i \in Instances : inst[i].pc \in {"idle", "parse", "finalCheck", "save", "populate", "done"}

(* ------------------------- what a payload holds ----------------------- *)
\* the string a payload's object holds under key, None when the key is
\* missing or holds another kind
StringUnder(payload, key) ==
  IF key \in DOMAIN payload.json.entries /\ payload.json.entries[key].kind = "STRING"
  THEN Some(payload.json.entries[key].str) ELSE None

\* the array a payload's object holds under key, as text
ArrayUnder(payload, key) ==
  IF key \in DOMAIN payload.json.entries /\ payload.json.entries[key].kind = "ARRAY"
  THEN Some(payload.json.entries[key].str) ELSE None

\* the content of a payload's object: a string, or the string uri of an object
ContentUnder(payload) ==
  IF "content" \notin DOMAIN payload.json.entries THEN None
  ELSE LET c == payload.json.entries["content"]
       IN  IF c.kind = "STRING" THEN Some(c.str)
           ELSE IF c.kind = "OBJECT" /\ "uri" \in DOMAIN c.entries
                   /\ c.entries["uri"].kind = "STRING"
                THEN Some(c.entries["uri"].str)
                ELSE None

\* the record that holds the fields of one payload: structured when the
\* payload is a JSON object, raw otherwise
RecordOf(cid, payload) ==
  IF payload.json.kind = "OBJECT"
  THEN [id |-> cid,
        contentType |-> Some("application/json"),
        metadata |-> Some(payload.text),
        description |-> StringUnder(payload, "description"),
        image |-> StringUnder(payload, "image"),
        externalUrl |-> StringUnder(payload, "external_url"),
        content |-> ContentUnder(payload),
        attributes |-> ArrayUnder(payload, "attributes")]
  ELSE [id |-> cid,
        contentType |-> Some("text/plain"),
        metadata |-> None, description |-> None, image |-> None,
        externalUrl |-> None,
        content |-> Some(payload.text),
        attributes |-> None]

Rank(state) == CASE state = "ABSENT" -> 0 [] state = "SHELL" -> 1 [] state = "POPULATED" -> 2

\* a producer-path run for cid happened in this step
ProducerRan(cid) == PostMetadataTemplate'[cid] > PostMetadataTemplate[cid]

\* a fetch-completion run for cid happened in this step
CompletionRan(cid) == delivered'[cid] # delivered[cid]

(* ------------------------------- claims ------------------------------- *)
\* C1: in every step of every interleaving of producer runs and completion
\* runs, no identifier's lifecycle state decreases (ABSENT < SHELL <
\* POPULATED), and a POPULATED record keeps every field.
C1_LifecycleMonotone ==
  [][\A c \in CIDs :
       /\ Rank(LifecycleState(c)') >= Rank(LifecycleState(c))
       /\ LifecycleState(c) = "POPULATED" => PostMetadata'[c] = PostMetadata[c]]_vars

\* C1 witness: a record is POPULATED, a second completion has run for it and
\* two producers have run for its identifier
C1_Witness ==
  \E c \in CIDs : /\ LifecycleState(c) = "POPULATED"
                  /\ Len(delivered[c]) = 2
                  /\ PostMetadataTemplate[c] = 2

\* C2: a completion run for an identifier that an earlier run with another
\* payload already wrote changes nothing; the record still is what the first
\* run wrote.
C2_SecondRunNoOp ==
  [][\A c \in CIDs :
       (/\ CompletionRan(c)
        /\ delivered[c] # <<>>
        /\ delivered'[c][Len(delivered'[c])] # delivered[c][1])
       => /\ PostMetadata' = PostMetadata
          /\ PostMetadata'[c] = ParseInto(NewPostMetadata(c), Payloads[delivered[c][1]])]_vars

\* C2 witness: two completions with different payloads have run for one CID
C2_Witness ==
  \E c \in CIDs : /\ Len(delivered[c]) = 2
                  /\ delivered[c][1] # delivered[c][2]
                  /\ c \in DOMAIN PostMetadata

\* C3: with atomic handler runs, save is executed for an identifier only
\* while its record is ABSENT, and after any completion exactly one save has
\* been executed for it and its one record exists.
C3_NoSaveOnPopulated ==
  [][\A c \in CIDs :
       /\ saves'[c] # saves[c] => LifecycleState(c) = "ABSENT"
       /\ delivered'[c] # <<>> => saves'[c] = 1 /\ LifecycleState(c)' = "POPULATED"]_vars

\* C3 witness: several producers share a CID, its completion was repeated,
\* and one save was executed
C3_Witness ==
  \E c \in CIDs : /\ PostMetadataTemplate[c] >= 2
                  /\ Len(delivered[c]) >= 2
                  /\ saves[c] = 1

C8_AbsentPopulatedInline ==
  [][\A c \in CIDs :
       (CompletionRan(c) /\ LifecycleState(c) = "ABSENT")
       => /\ LifecycleState(c)' = "POPULATED"
          /\ PostMetadata'[c] = RecordOf(c, Payloads[delivered'[c][Len(delivered'[c])]])]_vars

\* C8 witness: the one completion delivered for a CID populated its record
C8_Witness ==
  \E c \in CIDs : Len(delivered[c]) = 1 /\ LifecycleState(c) = "POPULATED"

\* the first completion of cid whose payload is a JSON object, 0 if none
FirstStructured(cid) ==
  LET hits == {i \in 1..Len(delivered[cid]) : Payloads[delivered[cid][i]].json.kind = "OBJECT"}
  IN  IF hits = {} THEN 0 ELSE CHOOSE i \in hits : \A j \in hits : i <= j

\* C9 as stated: the record holds the fields of the first completion whose
\* payload parsed as a structured document.
C9_FirstStructuredWins ==
  \A c \in CIDs :
    FirstStructured(c) # 0
    => /\ c \in DOMAIN PostMetadata
       /\ PostMetadata[c] = RecordOf(c, Payloads[delivered[c][FirstStructured(c)]])

\* C9 amended: the record holds the fields of the first completion delivered,
\* structured or raw; a first payload that is not a JSON object fixes the
\* record as raw also when a later payload is one.
C9_FirstDeliveredWins ==
  \A c \in CIDs :
    delivered[c] # <<>>
    => /\ c \in DOMAIN PostMetadata
       /\ PostMetadata[c] = RecordOf(c, Payloads[delivered[c][1]])
       /\ Payloads[delivered[c][1]].json.kind # "OBJECT"
          => PostMetadata[c].contentType = Some("text/plain")

\* C9 witness: a raw payload was delivered first and a structured one later
C9_Witness ==
  \E c \in CIDs : /\ Len(delivered[c]) >= 2
                  /\ FirstStructured(c) > 1
                  /\ PostMetadata[c].contentType = Some("text/plain")

C4_AtMostOneSave ==
  \A c \in CIDs : saves[c] <= 1

NewPosts == (DOMAIN Post') \ (DOMAIN Post)

\* the posts stored so far whose content reference resolves to identifier h
PostsResolvingTo(h) == {k \in DOMAIN Post : extractIPFSHash(Post[k].contentURI) = h}

\* C11: a coin-creation event whose content reference resolves to no
\* identifier still persists its Post with the URI as written and with
\* ipfsHash, ipfsGatewayURL and metadata unset, requests no fetch, and does
\* the rest of its work: the creator's post count grows by one, the
\* ContentCoin is written, the creator has a CreatorCoin and the coin contract
\* is tracked.
C11_UnresolvedStillPersisted ==
  [][\A k \in NewPosts :
       LET post == Post'[k]
           creator == post.creator
           before == IF creator \in DOMAIN User THEN User[creator].totalPosts ELSE 0
       IN  extractIPFSHash(post.contentURI) = <<>>
           => /\ post.contentURI \in URIs
              /\ post.content = post.contentURI
              /\ post.ipfsHash = None
              /\ post.ipfsGatewayURL = None
              /\ post.metadata = None
              /\ PostMetadataTemplate' = PostMetadataTemplate
              /\ User'[creator].totalPosts = before + 1
              /\ k \in DOMAIN ContentCoin'
              /\ ContentCoin'[k].post = k
              /\ ContentCoin'[k].creator = creator
              /\ creator \in DOMAIN CreatorCoin'
              /\ ContentCoinTemplate' = ContentCoinTemplate \cup {k}]_vars

\* C11 witness: one creator has a Post with an unresolvable reference and a
\* Post with a resolvable one, both with their ContentCoin and both tracked,
\* and a fetch was requested for the resolvable one only
C11_Witness ==
  \E k1, k2 \in DOMAIN Post :
    /\ extractIPFSHash(Post[k1].contentURI) = <<>>
    /\ Post[k1].metadata = None
    /\ Post[k2].metadata # None
    /\ Post[k1].creator = Post[k2].creator
    /\ User[Post[k1].creator].totalPosts = 2
    /\ {k1, k2} \subseteq DOMAIN ContentCoin
    /\ {k1, k2} \subseteq ContentCoinTemplate
    /\ PostMetadataTemplate[<<>>] = 0
    /\ \A c \in CIDs : PostMetadataTemplate[c] = Cardinality(PostsResolvingTo(c))

\* C12: when a coin-creation event resolves to an identifier that an earlier
\* producer already resolved to, the run still requests a fetch for it, and
\* every Post resolving to that identifier is linked to the record keyed by
\* the identifier itself.
C12_SharedIdentifier ==
  [][\A k \in NewPosts :
       LET h == extractIPFSHash(Post'[k].contentURI)
       IN  (h # <<>> /\ PostMetadataTemplate[h] >= 1)
           => /\ PostMetadataTemplate'[h] = PostMetadataTemplate[h] + 1
              /\ \A j \in DOMAIN Post' :
                   extractIPFSHash(Post'[j].contentURI) = h
                   => Post'[j].metadata = Some(h) /\ Post'[j].ipfsHash = Some(h)]_vars

\* C12 witness: two Posts whose references are written differently resolve to
\* one identifier, a fetch was requested for each and both link to that key
C12_Witness ==
  \E h \in CIDs : \E k1, k2 \in PostsResolvingTo(h) :
    /\ Post[k1].contentURI # Post[k2].contentURI
    /\ Post[k1].metadata = Some(h)
    /\ Post[k2].metadata = Some(h)
    /\ PostMetadataTemplate[h] = 2

\* C13: a fetch completion invoked with an empty identifier creates and
\* changes no record: no PostMetadata record is ever stored under the empty
\* key.
C13_NoEmptyKey == <<>> \notin DOMAIN PostMetadata

\* a call of fn has returned
Returned(fn) == call.fn = fn /\ call.returned

\* what is left of uri after its first Len(prefix) characters
After(uri, prefix) == SubSeq(uri, Len(prefix) + 1, Len(uri))

\* the path component right after the first /ipfs/ of uri, up to the next "/"
ComponentAfterSegment(uri) ==
  LET rest == SubSeq(uri, IndexOf(uri, IpfsSegment) + Len(IpfsSegment), Len(uri))
      cut == IndexOf(rest, Slash)
  IN  IF cut = 0 THEN rest ELSE SubSeq(rest, 1, cut - 1)

\* C14: for a URI that begins with ipfs://, extractIPFSHash returns the URI
\* with that prefix removed and nothing else changed.
C14_SchemePrefixStripped ==
  (Returned("extractIPFSHash") /\ StartsWith(call.uri, IpfsScheme))
  => call.result = After(call.uri, IpfsScheme)

\* C14 witness: extractIPFSHash has returned for an ipfs:// URI whose
\* remainder holds a "/" and a second ipfs://
C14_Witness ==
  /\ Returned("extractIPFSHash")
  /\ StartsWith(call.uri, IpfsScheme)
  /\ Includes(call.result, Slash)
  /\ Includes(call.result, IpfsScheme)

\* C15 as stated: for a URI that does not begin with ipfs:// and contains
\* /ipfs/, extractIPFSHash returns the path component right after that
\* segment, cut at the next "/", whatever precedes the segment.
C15_ComponentAnyScheme ==
  (/\ Returned("extractIPFSHash")
   /\ ~StartsWith(call.uri, IpfsScheme)
   /\ Includes(call.uri, IpfsSegment))
  => call.result = ComponentAfterSegment(call.uri)

\* C15: for a URI that begins with https:// and contains /ipfs/,
\* extractIPFSHash returns the path component right after the first /ipfs/,
\* cut at the next "/"; a URI that contains /ipfs/ and begins with neither
\* ipfs:// nor https:// is unresolved.
C15_ComponentHttpsOnly ==
  (/\ Returned("extractIPFSHash")
   /\ ~StartsWith(call.uri, IpfsScheme)
   /\ Includes(call.uri, IpfsSegment))
  => call.result = IF StartsWith(call.uri, HttpsScheme)
                   THEN ComponentAfterSegment(call.uri)
                   ELSE <<>>

\* C15 witness: extractIPFSHash has returned a non-empty component for an
\* https:// gateway URI with a sub-path after the component
C15_Witness ==
  /\ Returned("extractIPFSHash")
  /\ StartsWith(call.uri, HttpsScheme)
  /\ Includes(call.uri, IpfsSegment)
  /\ call.result # <<>>
  /\ Len(call.uri) > IndexOf(call.uri, IpfsSegment) + Len(IpfsSegment) + Len(call.result)

\* C16: for a URI that neither begins with ipfs:// nor contains /ipfs/,
\* extractIPFSHash returns the empty string.
C16_OtherwiseUnresolved ==
  (/\ Returned("extractIPFSHash")
   /\ ~StartsWith(call.uri, IpfsScheme)
   /\ ~Includes(call.uri, IpfsSegment))
  => call.result = <<>>

\* C16 witness: extractIPFSHash has returned for an https:// URI with a path
\* and no /ipfs/
C16_Witness ==
  /\ Returned("extractIPFSHash")
  /\ StartsWith(call.uri, HttpsScheme)
  /\ ~Includes(call.uri, IpfsSegment)
  /\ Len(call.uri) > Len(HttpsScheme) + 1
  /\ call.result = <<>>

\* C17: for every hash and every integer index buildIPFSURL returns a URL:
\* an index in 0..3 selects that gateway, every other index, negative ones
\* included, selects the first gateway; the hash is appended unchanged.
C17_EveryIndexGivesURL ==
  Returned("buildIPFSURL")
  => call.result =
       (IF call.gatewayIndex \in 0..3
        THEN IPFS_GATEWAYS[call.gatewayIndex + 1]
        ELSE IPFS_GATEWAYS[1]) \o call.hash

\* C18 as stated: buildIPFSURL with index 7 returns the URL of index
\* 7 mod 4 = 3.
C18_Index7AsIndex3 ==
  (Returned("buildIPFSURL") /\ call.gatewayIndex = 7)
  => call.result = IPFS_GATEWAYS[(7 % 4) + 1] \o call.hash

\* C18: buildIPFSURL with index 7 returns the URL of index 0, the first
\* gateway followed by the hash.
C18_Index7AsFirst ==
  (Returned("buildIPFSURL") /\ call.gatewayIndex = 7)
  => call.result = IPFS_GATEWAYS[1] \o call.hash

\* C18 witness: buildIPFSURL has returned for index 7 and a non-empty hash
C18_Witness ==
  /\ Returned("buildIPFSURL")
  /\ call.gatewayIndex = 7
  /\ call.hash # <<>>
  /\ call.result # IndexOutOfRange

\* C19: the record the fetch-completion handler writes for the payload
\* {"description":"hi","image":"http://x"} GARBAGE is classified structured
\* and holds the extracted fields description = hi and image = http://x, the
\* payload having been truncated to its last closing brace.
C19_TrailingGarbageRepaired ==
  \A c \in CIDs :
    (c \in DOMAIN PostMetadata /\ delivered[c][1] = 5)
    => /\ PostMetadata[c].contentType = Some("application/json")
       /\ PostMetadata[c].description = Some("hi")
       /\ PostMetadata[c].image = Some("http://x")
       /\ PostMetadata[c].metadata = Some(Payloads[1].text)

\* C20: the record written for the payload "not json at all" is classified
\* raw, its content is the literal payload, and description, image, external
\* link and attributes are unset.
C20_RawKeepsLiteral ==
  \A c \in CIDs :
    (c \in DOMAIN PostMetadata /\ Payloads[delivered[c][1]].text = "not json at all")
    => /\ PostMetadata[c].contentType = Some("text/plain")
       /\ PostMetadata[c].content = Some("not json at all")
       /\ PostMetadata[c].description = None
       /\ PostMetadata[c].image = None
       /\ PostMetadata[c].externalUrl = None
       /\ PostMetadata[c].attributes = None

\* C20 witness: a record was written from the payload "not json at all" and a
\* later completion for it carried a JSON object
C20_Witness ==
  \E c \in CIDs :
    /\ c \in DOMAIN PostMetadata
    /\ Len(delivered[c]) = 2
    /\ Payloads[delivered[c][1]].text = "not json at all"
    /\ Payloads[delivered[c][2]].json.kind = "OBJECT"
    /\ PostMetadata[c].contentType = Some("text/plain")

\* the payload the stored record of cid was written from: with atomic handler
\* runs, the first one delivered
WrittenFrom(cid) == Payloads[delivered[cid][1]]

\* C21: the record written from a structured payload holds as content the
\* string under the content key, or the string uri of the object under it;
\* content is unset when the key holds an object without a string uri or any
\* other kind, or is missing.
C21_ContentByKind ==
  \A c \in CIDs :
    (c \in DOMAIN PostMetadata /\ WrittenFrom(c).json.kind = "OBJECT")
    => LET entries == WrittenFrom(c).json.entries
           held == IF "content" \in DOMAIN entries THEN entries["content"] ELSE Missing
       IN  PostMetadata[c].content =
             CASE held.kind = "STRING" -> Some(held.str)
               [] held.kind = "OBJECT" ->
                    IF "uri" \in DOMAIN held.entries /\ held.entries["uri"].kind = "STRING"
                    THEN Some(held.entries["uri"].str)
                    ELSE None
               [] OTHER -> None

\* C21 witness: a record was written from {"content":{"uri":"ipfs://abc"},..}
\* and holds that uri as its content
C21_Witness ==
  \E c \in CIDs :
    /\ c \in DOMAIN PostMetadata
    /\ WrittenFrom(c).json.kind = "OBJECT"
    /\ "content" \in DOMAIN WrittenFrom(c).json.entries
    /\ WrittenFrom(c).json.entries["content"].kind = "OBJECT"
    /\ PostMetadata[c].content = Some("ipfs://abc")

\* C22: the record written from a structured payload has description, image
\* and externalUrl set exactly when their key holds a string, and attributes
\* exactly when its key holds an array; a missing key or another kind leaves
\* the field unset and the other fields are extracted all the same.
C22_FieldsByKind ==
  \A c \in CIDs :
    (c \in DOMAIN PostMetadata /\ WrittenFrom(c).json.kind = "OBJECT")
    => /\ PostMetadata[c].contentType = Some("application/json")
       /\ PostMetadata[c].description = StringUnder(WrittenFrom(c), "description")
       /\ PostMetadata[c].image = StringUnder(WrittenFrom(c), "image")
       /\ PostMetadata[c].externalUrl = StringUnder(WrittenFrom(c), "external_url")
       /\ PostMetadata[c].attributes = ArrayUnder(WrittenFrom(c), "attributes")

\* C22 witness: a record was written from a payload whose description, image
\* and attributes hold other kinds and whose external_url holds a string
C22_Witness ==
  \E c \in CIDs :
    /\ c \in DOMAIN PostMetadata
    /\ {"description", "image", "external_url", "attributes"}
         \subseteq DOMAIN WrittenFrom(c).json.entries
    /\ PostMetadata[c].description = None
    /\ PostMetadata[c].image = None
    /\ PostMetadata[c].attributes = None
    /\ PostMetadata[c].externalUrl = Some("http://e")

\* C29: the record written from a payload that is a JSON document but no
\* object (an array, a string, a number, a boolean, null) is raw: text/plain,
\* content the literal payload, no other field set.
C29_NonObjectIsRaw ==
  \A c \in CIDs :
    (c \in DOMAIN PostMetadata /\ delivered[c][1] \in NonObjectPayloadIds)
    => PostMetadata[c] =
         [id |-> c, contentType |-> Some("text/plain"), metadata |-> None,
          description |-> None, image |-> None, externalUrl |-> None,
          content |-> Some(WrittenFrom(c).text), attributes |-> None]

\* C29 witness: a record was written from the JSON array [1,2]
C29_Witness ==
  \E c \in CIDs :
    /\ c \in DOMAIN PostMetadata
    /\ WrittenFrom(c).json.kind = "ARRAY"
    /\ PostMetadata[c].content = Some("[1,2]")

ChainHandlerRan == NewPosts # {} \/ logIndex' # logIndex

\* C24: no chain-event handler (handleCoinCreatedV4, handleContentCoinTransfer,
\* handleContentCoinMint, handleCreatorCoinTransfer) writes a PostMetadata
\* record; a record becomes POPULATED only in a step of the fetch-completion
\* handler.
C24_OnlyCompletionPopulates ==
  [][/\ ChainHandlerRan => (PostMetadata' = PostMetadata /\ saves' = saves)
     /\ \A c \in CIDs :
          (LifecycleState(c) # "POPULATED" /\ LifecycleState(c)' = "POPULATED")
          => (CompletionRan(c) /\ ~ChainHandlerRan)]_vars

\* C24 witness: a Post was created, a mint and a transfer were handled for it
\* and the record of its identifier is still ABSENT
C24_Witness ==
  \E k \in DOMAIN Post :
    /\ Post[k].metadata # None
    /\ Post[k].totalMints >= 1
    /\ Post[k].totalTransfers >= 1
    /\ Post[k].metadata[1] \notin DOMAIN PostMetadata

\* the content reference of a Post
ContentReference(post) ==
  <<post.contentURI, post.ipfsHash, post.ipfsGatewayURL, post.metadata>>

\* C25: once a Post exists, no later step - Transfer, Mint, CreatorCoin
\* transfer or fetch completion - changes its contentURI, ipfsHash,
\* ipfsGatewayURL or metadata.
C25_ContentReferenceImmutable ==
  [][\A k \in DOMAIN Post :
       /\ k \in DOMAIN Post'
       /\ ContentReference(Post'[k]) = ContentReference(Post[k])]_vars

\* C25 witness: a Post with a resolved reference has been minted and
\* transferred, and the record of its identifier has been populated
C25_Witness ==
  \E k \in DOMAIN Post :
    /\ Post[k].metadata # None
    /\ Post[k].totalMints >= 1
    /\ Post[k].totalTransfers >= 1
    /\ Post[k].metadata[1] \in DOMAIN PostMetadata

\* how far a handler instance has got
Position(pc) ==
  CASE pc = "idle" -> 0 [] pc = "parse" -> 1 [] pc = "finalCheck" -> 2
    [] pc = "save" -> 3 [] pc = "populate" -> 3 [] pc = "done" -> 4

\* C26: the fetch-completion handler requests no fetch and never runs again
\* for the same delivery: the requests change only in a step that creates a
\* Post, every handler instance only moves forward through parse, final check
\* and save and stays where it ended, and at most one save is executed per
\* delivered completion.
C26_NoRefetchNoRerun ==
  [][/\ PostMetadataTemplate' # PostMetadataTemplate => NewPosts # {}
     /\ \A i \in Instances :
          /\ inst'[i] # inst[i] => Position(inst'[i].pc) > Position(inst[i].pc)
          /\ inst[i].pc = "done" => inst'[i] = inst[i]
     /\ \A c \in CIDs : saves'[c] <= Len(delivered'[c])]_vars

\* C26 witness: two instances have run to their end for one CID, one of them
\* through parse and save, and the fetch was requested once
C26_Witness ==
  \E c \in CIDs :
    /\ \A i \in Instances : inst[i].pc = "done" /\ inst[i].cid = c
    /\ \E i \in Instances : inst[i].created
    /\ saves[c] >= 1
    /\ PostMetadataTemplate[c] = 1

\* the first gateway, as the spec writes it
FirstGateway ==
  <<"h","t","t","p","s",":","/","/","i","p","f","s",".","i","o","/","i","p","f","s","/">>

\* C27: in every reachable state, each Post whose metadata link is set has
\* metadata equal to ipfsHash, ipfsHash equal to what extractIPFSHash returns
\* for its contentURI, ipfsGatewayURL equal to https://ipfs.io/ipfs/ followed
\* by ipfsHash, and a fetch was requested for that identifier.
C27_LinkedPostConsistent ==
  \A p \in DOMAIN Post :
    Post[p].metadata # None =>
      LET h == extractIPFSHash(Post[p].contentURI)
      IN  /\ Post[p].metadata = Post[p].ipfsHash
          /\ Post[p].ipfsHash = Some(h)
          /\ Post[p].ipfsGatewayURL = Some(FirstGateway \o h)
          /\ h \in DOMAIN PostMetadataTemplate
          /\ PostMetadataTemplate[h] >= 1

\* C27 witness: a Post made from a gateway URI is linked, beside a Post whose
\* URI did not resolve
C27_Witness ==
  \E p, q \in DOMAIN Post :
    /\ Post[p].contentURI =
         <<"h","t","t","p","s",":","/","/","g","/","i","p","f","s","/","a","/","x">>
    /\ Post[p].metadata = Some(<<"a">>)
    /\ Post[q].metadata = None

\* C28: no fetch is requested with an empty identifier: the count of requests
\* for the empty identifier never changes, and a step that creates a Post
\* either leaves the requests alone or adds one request for one non-empty
\* identifier.
C28_NoEmptyFetch ==
  [][/\ PostMetadataTemplate'[<<>>] = 0
     /\ NewPosts # {} =>
          \/ PostMetadataTemplate' = PostMetadataTemplate
          \/ \E c \in Identifiers :
               /\ Len(c) > 0
               /\ PostMetadataTemplate' = [PostMetadataTemplate EXCEPT ![c] = @ + 1]]_vars

\* C28 witness: Posts for ipfs:// alone and for https://g/ipfs//x exist and
\* no fetch has been requested
C28_Witness ==
  /\ \E p \in DOMAIN Post : Post[p].contentURI = <<"i","p","f","s",":","/","/">>
  /\ \E p \in DOMAIN Post :
       Post[p].contentURI =
         <<"h","t","t","p","s",":","/","/","g","/","i","p","f","s","/","/","x">>
  /\ \A c \in Identifiers : PostMetadataTemplate[c] = 0

\* the record of cid is POPULATED with content-kind structured or raw
PopulatedKnown(cid) ==
  /\ LifecycleState(cid) = "POPULATED"
  /\ PostMetadata[cid].contentType \in {Some("application/json"), Some("text/plain")}

\* C30: under fair scheduling of handler runs, once a completion has been
\* delivered for an identifier its record is eventually POPULATED with
\* content-kind structured or raw, and a POPULATED record stays POPULATED in
\* every later state.
C30_EventuallyPopulated ==
  \A c \in CIDs :
    /\ (Len(delivered[c]) > 0) ~> PopulatedKnown(c)
    /\ [](PopulatedKnown(c) => []PopulatedKnown(c))

\* C30 witness: a completion carrying text that is not JSON was delivered,
\* its run went through to the save, and the record is POPULATED as raw
C30_Witness ==
  \E c \in CIDs, i \in Instances :
    /\ Len(delivered[c]) > 0
    /\ inst[i] = [pc |-> "done", cid |-> c, pid |-> 3,
                  metadata |-> inst[i].metadata, created |-> TRUE]
    /\ saves[c] >= 1
    /\ LifecycleState(c) = "POPULATED"
    /\ PostMetadata[c].contentType = Some("text/plain")

\* what is stored about identifier cid: its record if there is one, the
\* fetches requested, the completions delivered and the saves made
AboutIdentifier(cid) ==
  <<IF cid \in DOMAIN PostMetadata THEN Some(PostMetadata[cid]) ELSE None,
    PostMetadataTemplate[cid], delivered[cid], saves[cid]>>

\* C31: a producer-path run or a fetch-completion run for identifier A leaves
\* everything stored about every other identifier B as it was, and neither
\* kind of run waits for B: a coin-creation event for a coin not yet tracked
\* can always be handled, and a completion for a requested identifier can
\* always be handled, whatever records exist.
C31_FrameAcrossIdentifiers ==
  /\ [][\A a \in CIDs : \A b \in CIDs \ {a} :
          (ProducerRan(a) \/ CompletionRan(a)) => AboutIdentifier(b)' = AboutIdentifier(b)]_vars
  /\ [](\A a \in CIDs, pid \in StepPayloadIds :
          (PostMetadataTemplate[a] > 0 /\ MayDeliver) => ENABLED handlePostMetadata(a, pid))
  /\ [](\A caller \in Callers, coin \in Coins \ ContentCoinTemplate, uri \in FrameURIs :
          ENABLED handleCoinCreatedV4(caller, coin, uri))

\* C31 witness: identifier a has a record and a further request after it,
\* while the fetch requested for identifier b has not completed
C31_Witness ==
  /\ LifecycleState(<<"a">>) = "POPULATED"
  /\ PostMetadataTemplate[<<"a">>] >= 1
  /\ PostMetadataTemplate[<<"b">>] >= 1
  /\ LifecycleState(<<"b">>) = "ABSENT"
  /\ delivered[<<"b">>] = <<>>

\* the entities the chain handlers store
StoredEntities == <<User, Post, ContentCoin, CreatorCoin, Mint, Transfer>>

\* C32: a ContentCoin Transfer or Mint event at an address with no stored
\* Post or no stored ContentCoin changes no stored entity: no User is created
\* or counted up and no Mint or Transfer entity is created.
C32_UnknownAddressChangesNothing ==
  [][\A coin \in Coins :
       (coin \notin DOMAIN Post \/ coin \notin DOMAIN ContentCoin) =>
         /\ \A from \in TransferSenders, to \in TransferReceivers, value \in Amounts :
              handleContentCoinTransfer(coin, from, to, value)
              => StoredEntities' = StoredEntities
         /\ \A to \in TransferReceivers, amount \in Amounts :
              handleContentCoinMint(coin, to, amount)
              => StoredEntities' = StoredEntities]_vars

\* the totalMints of address u in a User store, 0 when it has no User
MintsOf(users, u) == IF u \in DOMAIN users THEN users[u].totalMints ELSE 0

\* the totalTransfers of address u in a User store, 0 when it has no User
TransfersOf(users, u) == IF u \in DOMAIN users THEN users[u].totalTransfers ELSE 0

C34_PostAndCoinAgree ==
  /\ DOMAIN Post = DOMAIN ContentCoin
  /\ \A coin \in DOMAIN Post :
       /\ Post[coin].totalMints = ContentCoin[coin].totalMints
       /\ Post[coin].totalSupply = ContentCoin[coin].totalSupply
       /\ Post[coin].totalTransfers = ContentCoin[coin].totalTransfers

\* C34 witness: a coin that has been minted once and transferred once
\* carries the same non-zero statistics on its Post and its ContentCoin
C34_Witness ==
  \E coin \in DOMAIN Post, m \in DOMAIN Mint :
    /\ Mint[m].post = coin
    /\ ContentCoin[coin].totalMints = 1
    /\ ContentCoin[coin].totalSupply = Mint[m].amount
    /\ ContentCoin[coin].totalTransfers = 1
    /\ Post[coin].totalTransfers = 1

\* the stored Mint and Transfer entities linked to a Post
MintsOfPost(coin) == {m \in DOMAIN Mint : Mint[m].post = coin}
TransfersOfPost(coin) == {t \in DOMAIN Transfer : Transfer[t].post = coin}

\* the sum of the amounts of a set of Mint entities
RECURSIVE SumOfAmounts(_)
SumOfAmounts(ids) ==
  IF ids = {} THEN 0
  ELSE LET m == CHOOSE x \in ids : TRUE
       IN  Mint[m].amount + SumOfAmounts(ids \ {m})

\* C35: in every reachable state, for every Post, totalMints is the number of
\* stored Mint entities linked to it, totalSupply the sum of their amounts and
\* totalTransfers the number of stored Transfer entities linked to it, events
\* carrying distinct transaction-hash / log-index pairs.
C35_CountersMatchEntities ==
  \A coin \in DOMAIN Post :
    /\ Post[coin].totalMints = Cardinality(MintsOfPost(coin))
    /\ Post[coin].totalSupply = SumOfAmounts(MintsOfPost(coin))
    /\ Post[coin].totalTransfers = Cardinality(TransfersOfPost(coin))

\* C35 witness: two mints of one coin are stored as two Mint entities and
\* counted twice, beside a coin that has none
C35_Witness ==
  \E coin \in DOMAIN Post, other \in DOMAIN Post :
    /\ Cardinality(MintsOfPost(coin)) = 2
    /\ Post[coin].totalMints = 2
    /\ Post[coin].totalSupply = SumOfAmounts(MintsOfPost(coin))
    /\ Post[coin].totalSupply > 0
    /\ MintsOfPost(other) = {}

\* the sum of totalMints over a set of Users
RECURSIVE SumOfUserMints(_)
SumOfUserMints(users) ==
  IF users = {} THEN 0
  ELSE LET u == CHOOSE x \in users : TRUE
       IN  User[u].totalMints + SumOfUserMints(users \ {u})

\* the coin-creation events handled with address u as caller: one per Post
\* created by u, the factory emitting one event per coin
PostsCreatedBy(u) == {coin \in DOMAIN Post : Post[coin].creator = u}

\* C36: in every reachable state, the totalMints of all Users add up to the
\* number of stored Mint entities, and each User's totalPosts is the number
\* of coin-creation events handled with that User as caller.
C36_UserTotals ==
  /\ SumOfUserMints(DOMAIN User) = Cardinality(DOMAIN Mint)
  /\ \A u \in DOMAIN User : User[u].totalPosts = Cardinality(PostsCreatedBy(u))

\* C36 witness: two Users have one mint each, two Mint entities are stored,
\* and one of the two Users is the creator of two Posts, the other of none
C36_Witness ==
  \E u \in DOMAIN User : \E v \in (DOMAIN User) \ {u} :
    /\ User[u].totalMints = 1 /\ User[v].totalMints = 1
    /\ Cardinality(DOMAIN Mint) = 2
    /\ User[u].totalPosts = 2
    /\ User[v].totalPosts = 0

====
